---- MODULE Spec2Model ----
(***************************************************************************)
(* Marker tracking state machine of src/src/marker-tracker.js.             *)
(*                                                                         *)
(* The module-level variables of marker-tracker.js are the state.  One     *)
(* action models one exported operation; the asynchronous                  *)
(* initializeMarkerTracking is cut at its awaits, so that frames may be    *)
(* processed while it is pending.  The host runtime (frame, pose query,    *)
(* fetch, registration) and the registered callbacks are the environment:  *)
(* what they answer is drawn from small sets.                              *)
(*                                                                         *)
(* Every action records, in the variable last, the call it has just        *)
(* completed: its inputs, the state it started from, what it returned and  *)
(* the collaborator calls it made.                                         *)
(***************************************************************************)
EXTENDS Integers, Sequences, FiniteSets, TLC

VARIABLES
    trackableImage,            \* marker-tracker.js:5
    markerImageLoaded,         \* marker-tracker.js:6
    isMarkerDetected,          \* marker-tracker.js:9
    currentMarkerPose,         \* marker-tracker.js:10
    onMarkerDetectedCallback,  \* marker-tracker.js:11
    onMarkerLostCallback,      \* marker-tracker.js:12
    markerConfig,              \* marker-tracker.js:15, the fields of MARKER_CONFIG
    initPc,                    \* where a pending initializeMarkerTracking is suspended
    last,                      \* record of the call completed last
    returnedConfig,            \* the object getMarkerConfig gave, while its caller keeps it
    scenario,                  \* the frames a scripted run has fed so far, and what came of them
    registered,                \* the argument of the latest onMarkerDetected, onMarkerLost call
    outer,                     \* the updateMarkerTracking call suspended in a callback, if any
    fired,                     \* the callback invoked last in a run, and whether the
                               \* invocations of the run have alternated so far
    main                       \* main.js: xrSession, referenceSpace, frameCount (5, 7, 14),
                               \* the position of requestARSession, and the XR runtime

vars == <<trackableImage, markerImageLoaded, isMarkerDetected, currentMarkerPose,
          onMarkerDetectedCallback, onMarkerLostCallback, markerConfig, initPc, last,
          returnedConfig, scenario, registered, outer, fired, main>>

\* what only the actions about the configuration, the scripted runs and the
\* registrations change
aux == <<markerConfig, returnedConfig, scenario, registered, outer, fired, main>>

(***************************************************************************)
(* Bounds of the model.                                                    *)
(***************************************************************************)
MaxResults == 2     \* longest tracking-result list a frame returns
MaxFired == 3       \* callback invocations of a run that are counted
MaxFrames == 8      \* frames the render loop of main.js counts
NumPoses == 2       \* distinct poses the pose query may return

(***************************************************************************)
(* Values.                                                                 *)
(***************************************************************************)
Null == 0           \* JavaScript null: no handle, no pose, no callback, no space
Undefined == -1     \* the value of a call that falls off the end of the function
Throws == -2        \* a collaborator call that throws instead of returning

Handles == {1, 2}               \* XRTrackedImageImage objects of the runtime
Callbacks == {1, 2}             \* functions the application may register
ReferenceSpaces == {Null, 1}    \* the referenceSpace argument (absent or present)
Poses == 1 .. NumPoses          \* XRPose objects
PoseOutcomes == Poses \cup {Null, Throws}
CallbackOutcomes == {"return", "throw"}
TrackingStates == {"tracked", "emulated", "untracked", "other"}

\* marker-tracker.js:15-19, lengths in millimetres
PhysicalWidthMm == 100
PhysicalHeightMm == 150
MARKER_CONFIG ==
    [imagePath |-> "/marker-image.jpg",
     physicalWidth |-> PhysicalWidthMm,
     physicalHeight |-> PhysicalHeightMm]

\* no configuration object
NoConfig == [imagePath |-> "", physicalWidth |-> 0, physicalHeight |-> 0]

\* no scripted run
NoScenario == [step |-> 0, returns |-> <<>>, answers |-> <<>>,
               detected |-> <<>>, lost |-> <<>>, threw |-> FALSE]

\* no call is suspended in a callback
NoRun == [isMarkerDetected |-> FALSE, currentMarkerPose |-> Null, ret |-> Undefined,
          detectedCalls |-> <<>>, lostCalls |-> <<>>, enumCalls |-> 0,
          poseQueries |-> <<>>, exc |-> FALSE, caught |-> FALSE]
NoOuter == [pc |-> "none", frame |-> [hasFn |-> FALSE, kind |-> "none", list |-> <<>>],
            referenceSpace |-> Null, pose |-> Null,
            pre |-> [isMarkerDetected |-> FALSE, currentMarkerPose |-> Null],
            ends |-> "return", run |-> NoRun,
            reentered |-> FALSE, nestedDetected |-> 0, nestedLost |-> 0]

\* no callback was invoked yet
NoneFired == [latest |-> "none", count |-> 0, alternates |-> TRUE]

\* main.js before any frame callback has run
NoFrameRun == [ran |-> FALSE, hadSession |-> FALSE, hadSpace |-> FALSE,
               counted |-> FALSE, requested |-> FALSE, bound |-> "none",
               viewerPose |-> FALSE]

\* main.js:5-14 when the page has loaded: no session, no reference space, no
\* frame counted; requestARSession not begun; nothing asked of the runtime
PageLoaded ==
    [xrSession |-> FALSE,           \* main.js:5, whether xrSession is an object
     referenceSpace |-> FALSE,      \* main.js:7, whether referenceSpace is an object
     frameCount |-> 0,              \* main.js:14
     pc |-> "start",                \* where requestARSession is
     listening |-> FALSE,           \* the 'end' listener is installed (205)
     pending |-> 0,                 \* frame callbacks requested and not yet delivered
     ended |-> FALSE,               \* the runtime has ended the session
     handled |-> FALSE,             \* handleSessionEnd has run
     frame |-> NoFrameRun]          \* what the latest onXRFrame did

LfsPointerLimit == 200          \* marker-tracker.js:40, blob.size < 200
BlobSizes == {150, 200}

\* What fetching and decoding the marker image gives: fetch rejects, answers
\* with a status that is not ok, or answers with a blob of some size, which
\* is a Git LFS pointer file or not, and which createImageBitmap can decode
\* or not (a pointer file is text, never an image).
NoImage == [fetch |-> "none", size |-> 0, pointer |-> FALSE, decodable |-> FALSE]
Images ==
    {[NoImage EXCEPT !.fetch = f] : f \in {"reject", "notok"}}
    \cup {i \in [fetch : {"ok"}, size : BlobSizes, pointer : BOOLEAN, decodable : BOOLEAN] :
            i.pointer => ~i.decodable}

\* What the capability check of registration reads: 'ImageTracking' in
\* window, session.requestImageTrackableImage, and the navigator strings.
NoPlatform == [imageTracking |-> FALSE, requestFn |-> FALSE,
               isMac |-> FALSE, mobileAgent |-> FALSE, chromeAgent |-> FALSE]
Platforms == [imageTracking : BOOLEAN, requestFn : BOOLEAN,
              isMac : BOOLEAN, mobileAgent : BOOLEAN, chromeAgent : BOOLEAN]

\* One XRImageTrackingResult; its imageSpace is its own object, identified
\* by the position of the result in the list.
Entries == [trackedImage : Handles, trackingState : TrackingStates]

ResultLists == UNION {[1 .. n -> Entries] : n \in 0 .. MaxResults}

\* An XRFrame: whether it has getImageTrackingResults at all, and what the
\* call gives: a list, null/undefined, or an exception.
Frames ==
    {[hasFn |-> FALSE, kind |-> "none", list |-> <<>>]}
    \cup {[hasFn |-> TRUE, kind |-> k, list |-> <<>>] : k \in {"null", "throw"}}
    \cup {[hasFn |-> TRUE, kind |-> "list", list |-> l] : l \in ResultLists}

(***************************************************************************)
(* The running state of one updateMarkerTracking call: the detection       *)
(* state as the call has changed it so far, the collaborator and callback  *)
(* calls made so far, a pending exception, and the value returned.         *)
(***************************************************************************)
StartOfCall ==
    [isMarkerDetected |-> isMarkerDetected,
     currentMarkerPose |-> currentMarkerPose,
     ret |-> Undefined,
     detectedCalls |-> <<>>,
     lostCalls |-> <<>>,
     enumCalls |-> 0,
     poseQueries |-> <<>>,
     exc |-> FALSE,
     caught |-> FALSE]

\* handleMarkerDetected that notifies before it writes the state
handleMarkerDetectedNotifiesFirst(t, pose, cbOut) ==
    LET t1 == [t EXCEPT !.isMarkerDetected = TRUE, !.currentMarkerPose = pose]
    IN  IF onMarkerDetectedCallback # Null
        THEN IF cbOut = "throw"
             THEN [t EXCEPT
                     !.detectedCalls = Append(@, [cb |-> onMarkerDetectedCallback,
                                                  pose |-> pose,
                                                  sawDetected |-> t.isMarkerDetected,
                                                  sawPose |-> t.currentMarkerPose]),
                     !.exc = TRUE]
             ELSE [t1 EXCEPT
                     !.detectedCalls = Append(@, [cb |-> onMarkerDetectedCallback,
                                                  pose |-> pose,
                                                  sawDetected |-> t.isMarkerDetected,
                                                  sawPose |-> t.currentMarkerPose])]
        ELSE t1

\* handleMarkerDetected that notifies again after the callback returned
handleMarkerDetectedNotifiesTwice(t, pose, cbOut) ==
    LET t1 == [t EXCEPT !.isMarkerDetected = TRUE, !.currentMarkerPose = pose]
        call == [cb |-> onMarkerDetectedCallback,
                 pose |-> pose,
                 sawDetected |-> t1.isMarkerDetected,
                 sawPose |-> t1.currentMarkerPose]
    IN  IF onMarkerDetectedCallback # Null
        THEN [t1 EXCEPT
                !.detectedCalls = IF cbOut = "throw" THEN Append(@, call)
                                  ELSE Append(Append(@, call), call),
                !.exc = (cbOut = "throw")]
        ELSE t1

\* marker-tracker.js:305-321
handleMarkerDetected(t, pose, cbOut) ==
    LET t1 == [t EXCEPT !.isMarkerDetected = TRUE, !.currentMarkerPose = pose]
    IN  IF onMarkerDetectedCallback # Null
        THEN [t1 EXCEPT
                !.detectedCalls = Append(@, [cb |-> onMarkerDetectedCallback,
                                             pose |-> pose,
                                             sawDetected |-> t1.isMarkerDetected,
                                             sawPose |-> t1.currentMarkerPose]),
                !.exc = (cbOut = "throw")]
        ELSE t1

\* handleMarkerLost that notifies before it writes the state
handleMarkerLostNotifiesFirst(t, cbOut) ==
    LET t1 == [t EXCEPT !.isMarkerDetected = FALSE, !.currentMarkerPose = Null]
        call == [cb |-> onMarkerLostCallback,
                 sawDetected |-> t.isMarkerDetected,
                 sawPose |-> t.currentMarkerPose]
    IN  IF onMarkerLostCallback # Null
        THEN IF cbOut = "throw"
             THEN [t EXCEPT !.lostCalls = Append(@, call), !.exc = TRUE]
             ELSE [t1 EXCEPT !.lostCalls = Append(@, call)]
        ELSE t1

\* handleMarkerLost without line 328: the pose is not cleared
handleMarkerLostKeepsPose(t, cbOut) ==
    LET t1 == [t EXCEPT !.isMarkerDetected = FALSE]
    IN  IF onMarkerLostCallback # Null
        THEN [t1 EXCEPT
                !.lostCalls = Append(@, [cb |-> onMarkerLostCallback,
                                         sawDetected |-> t1.isMarkerDetected,
                                         sawPose |-> t1.currentMarkerPose]),
                !.exc = (cbOut = "throw")]
        ELSE t1

\* marker-tracker.js:326-336
handleMarkerLost(t, cbOut) ==
    LET t1 == [t EXCEPT !.isMarkerDetected = FALSE, !.currentMarkerPose = Null]
    IN  IF onMarkerLostCallback # Null
        THEN [t1 EXCEPT
                !.lostCalls = Append(@, [cb |-> onMarkerLostCallback,
                                         sawDetected |-> t1.isMarkerDetected,
                                         sawPose |-> t1.currentMarkerPose]),
                !.exc = (cbOut = "throw")]
        ELSE t1

\* return v, unless an exception is on its way to the catch block
Return(t, v) == IF t.exc THEN t ELSE [t EXCEPT !.ret = v]

\* marker-tracker.js:224  frame.getImageTrackingResults()
getImageTrackingResults(t, frame) ==
    [t EXCEPT !.enumCalls = @ + 1, !.exc = (frame.kind = "throw")]

\* marker-tracker.js:258, 276  frame.getPose(imageSpace, referenceSpace)
getPose(t, imageSpace, referenceSpace, poseOut) ==
    [t EXCEPT !.poseQueries = Append(@, [imageSpace |-> imageSpace,
                                         referenceSpace |-> referenceSpace,
                                         outcome |-> poseOut]),
              !.exc = (poseOut = Throws)]

\* FindMarkerResult that takes the last result of our image
FindMarkerResultLast(list) ==
    LET mine == {i \in 1 .. Len(list) : list[i].trackedImage = trackableImage}
    IN  IF mine = {} THEN 0 ELSE CHOOSE i \in mine : \A j \in mine : i >= j

\* marker-tracker.js:236-242: index of the first result of our image, 0 if none
FindMarkerResult(list) ==
    LET mine == {i \in 1 .. Len(list) : list[i].trackedImage = trackableImage}
    IN  IF mine = {} THEN 0 ELSE CHOOSE i \in mine : \A j \in mine : i <= j

\* NoResultsBranch without the test of line 228: every empty frame notifies
NoResultsBranchNotifiesEveryFrame(t, cbOut) ==
    Return(handleMarkerLost(t, cbOut), Null)

\* marker-tracker.js:226-233
NoResultsBranch(t, cbOut) ==
    IF t.isMarkerDetected THEN Return(handleMarkerLost(t, cbOut), Null)
    ELSE Return(t, Null)

\* marker-tracker.js:244-250
NoMarkerBranch(t, cbOut) ==
    IF t.isMarkerDetected THEN Return(handleMarkerLost(t, cbOut), Null)
    ELSE Return(t, Null)

\* TrackedBranch without the test of line 262: every tracked frame notifies
TrackedBranchNotifiesEveryFrame(t, imageSpace, referenceSpace, poseOut, cbOut) ==
    LET q == getPose(t, imageSpace, referenceSpace, poseOut)
    IN  IF q.exc THEN q
        ELSE IF poseOut # Null
        THEN LET d == handleMarkerDetected(q, poseOut, cbOut)
             IN  IF d.exc THEN d
                 ELSE Return([d EXCEPT !.currentMarkerPose = poseOut,
                                       !.isMarkerDetected = TRUE], poseOut)
        ELSE q

\* TrackedBranch that takes a missing pose for a lost marker
TrackedBranchLosesWithoutPose(t, imageSpace, referenceSpace, poseOut, cbOut) ==
    LET q == getPose(t, imageSpace, referenceSpace, poseOut)
    IN  IF q.exc THEN q
        ELSE IF poseOut # Null
        THEN LET d == IF ~q.isMarkerDetected
                      THEN handleMarkerDetected(q, poseOut, cbOut)
                      ELSE q
             IN  IF d.exc THEN d
                 ELSE Return([d EXCEPT !.currentMarkerPose = poseOut,
                                       !.isMarkerDetected = TRUE], poseOut)
        ELSE IF q.isMarkerDetected
        THEN Return(handleMarkerLost(q, cbOut), Null)
        ELSE Return(q, Null)

\* TrackedBranch that returns the pose it held when the call began
TrackedBranchReturnsHeldPose(t, imageSpace, referenceSpace, poseOut, cbOut) ==
    LET q == getPose(t, imageSpace, referenceSpace, poseOut)
    IN  IF q.exc THEN q
        ELSE IF poseOut # Null
        THEN LET d == IF ~q.isMarkerDetected
                      THEN handleMarkerDetected(q, poseOut, cbOut)
                      ELSE q
             IN  IF d.exc THEN d
                 ELSE Return([d EXCEPT !.currentMarkerPose = poseOut,
                                       !.isMarkerDetected = TRUE],
                             IF t.isMarkerDetected THEN t.currentMarkerPose ELSE poseOut)
        ELSE q

\* TrackedBranch that writes isMarkerDetected outside the test of the pose
TrackedBranchDetectsWithoutPose(t, imageSpace, referenceSpace, poseOut, cbOut) ==
    LET q == getPose(t, imageSpace, referenceSpace, poseOut)
    IN  IF q.exc THEN q
        ELSE IF poseOut # Null
        THEN LET d == IF ~q.isMarkerDetected
                      THEN handleMarkerDetected(q, poseOut, cbOut)
                      ELSE q
             IN  IF d.exc THEN d
                 ELSE Return([d EXCEPT !.currentMarkerPose = poseOut,
                                       !.isMarkerDetected = TRUE], poseOut)
        ELSE [q EXCEPT !.isMarkerDetected = TRUE]

\* marker-tracker.js:255-273
TrackedBranch(t, imageSpace, referenceSpace, poseOut, cbOut) ==
    LET q == getPose(t, imageSpace, referenceSpace, poseOut)
    IN  IF q.exc THEN q
        ELSE IF poseOut # Null
        THEN LET d == IF ~q.isMarkerDetected
                      THEN handleMarkerDetected(q, poseOut, cbOut)
                      ELSE q
             IN  IF d.exc THEN d
                 ELSE Return([d EXCEPT !.currentMarkerPose = poseOut,
                                       !.isMarkerDetected = TRUE], poseOut)
        ELSE q      \* falls through to the end of the function

\* EmulatedBranch without lines 281-284: an emulated marker is never lost
EmulatedBranchNeverLoses(t, imageSpace, referenceSpace, poseOut, cbOut) ==
    LET q == getPose(t, imageSpace, referenceSpace, poseOut)
    IN  IF q.exc THEN q
        ELSE IF poseOut # Null /\ q.isMarkerDetected
        THEN Return([q EXCEPT !.currentMarkerPose = poseOut], poseOut)
        ELSE Return(q, Null)

\* EmulatedBranch without line 279: the held pose is kept
EmulatedBranchKeepsHeldPose(t, imageSpace, referenceSpace, poseOut, cbOut) ==
    LET q == getPose(t, imageSpace, referenceSpace, poseOut)
    IN  IF q.exc THEN q
        ELSE IF poseOut # Null /\ q.isMarkerDetected
        THEN Return(q, q.currentMarkerPose)
        ELSE IF q.isMarkerDetected
        THEN Return(handleMarkerLost(q, cbOut), Null)
        ELSE Return(q, Null)

\* EmulatedBranch without "&& isMarkerDetected" in line 277
EmulatedBranchDetects(t, imageSpace, referenceSpace, poseOut, cbOut) ==
    LET q == getPose(t, imageSpace, referenceSpace, poseOut)
    IN  IF q.exc THEN q
        ELSE IF poseOut # Null
        THEN Return([q EXCEPT !.currentMarkerPose = poseOut], poseOut)
        ELSE IF q.isMarkerDetected
        THEN Return(handleMarkerLost(q, cbOut), Null)
        ELSE Return(q, Null)

\* marker-tracker.js:273-285
EmulatedBranch(t, imageSpace, referenceSpace, poseOut, cbOut) ==
    LET q == getPose(t, imageSpace, referenceSpace, poseOut)
    IN  IF q.exc THEN q
        ELSE IF poseOut # Null /\ q.isMarkerDetected
        THEN Return([q EXCEPT !.currentMarkerPose = poseOut], poseOut)
        ELSE IF q.isMarkerDetected
        THEN Return(handleMarkerLost(q, cbOut), Null)
        ELSE Return(q, Null)

\* UntrackedBranch without the test of line 288: every untracked frame notifies
UntrackedBranchNotifiesEveryFrame(t, cbOut) ==
    Return(handleMarkerLost(t, cbOut), Null)

\* UntrackedBranch that asks for a pose all the same, and gets none
UntrackedBranchQueriesPose(t, cbOut) ==
    LET q == getPose(t, 1, 1, Null)
    IN  IF q.isMarkerDetected THEN Return(handleMarkerLost(q, cbOut), Null)
        ELSE Return(q, Null)

\* marker-tracker.js:286-292
UntrackedBranch(t, cbOut) ==
    IF t.isMarkerDetected THEN Return(handleMarkerLost(t, cbOut), Null)
    ELSE Return(t, Null)

\* TryBlock whose last branch tests for 'untracked' and skips anything else
TryBlockSkipsUnknownState(t, frame, referenceSpace, poseOut, cbOut) ==
    LET r == getImageTrackingResults(t, frame)
    IN  IF r.exc THEN r
        ELSE IF frame.kind = "null" \/ Len(frame.list) = 0
        THEN NoResultsBranch(r, cbOut)
        ELSE LET i == FindMarkerResult(frame.list)
             IN  IF i = 0 THEN NoMarkerBranch(r, cbOut)
                 ELSE IF frame.list[i].trackingState = "tracked"
                 THEN TrackedBranch(r, i, referenceSpace, poseOut, cbOut)
                 ELSE IF frame.list[i].trackingState = "emulated"
                 THEN EmulatedBranch(r, i, referenceSpace, poseOut, cbOut)
                 ELSE IF frame.list[i].trackingState = "untracked"
                 THEN UntrackedBranch(r, cbOut)
                 ELSE Return(r, Null)

\* marker-tracker.js:222-293, the body of the try block
TryBlock(t, frame, referenceSpace, poseOut, cbOut) ==
    LET r == getImageTrackingResults(t, frame)
    IN  IF r.exc THEN r
        ELSE IF frame.kind = "null" \/ Len(frame.list) = 0
        THEN NoResultsBranch(r, cbOut)
        ELSE LET i == FindMarkerResult(frame.list)
             IN  IF i = 0 THEN NoMarkerBranch(r, cbOut)
                 ELSE IF frame.list[i].trackingState = "tracked"
                 THEN TrackedBranch(r, i, referenceSpace, poseOut, cbOut)
                 ELSE IF frame.list[i].trackingState = "emulated"
                 THEN EmulatedBranch(r, i, referenceSpace, poseOut, cbOut)
                 ELSE UntrackedBranch(r, cbOut)

\* CatchBlock that logs and throws the error on
CatchBlockRethrows(t) ==
    IF t.exc THEN [t EXCEPT !.caught = TRUE] ELSE t

\* CatchBlock that takes the error for a lost marker
CatchBlockDropsMarker(t) ==
    IF t.exc
    THEN [t EXCEPT !.exc = FALSE, !.caught = TRUE, !.ret = Null,
                   !.isMarkerDetected = FALSE, !.currentMarkerPose = Null]
    ELSE t

\* marker-tracker.js:294-298
CatchBlock(t) ==
    IF t.exc THEN [t EXCEPT !.exc = FALSE, !.caught = TRUE, !.ret = Null]
    ELSE t

\* updateMarkerTracking without the test of lines 218-220
updateMarkerTrackingAssumesEnumeration(t, frame, referenceSpace, poseOut, cbOut) ==
    IF trackableImage = Null \/ referenceSpace = Null THEN Return(t, Null)
    ELSE CatchBlock(TryBlock(t, frame, referenceSpace, poseOut, cbOut))

\* marker-tracker.js:212-299
updateMarkerTracking(t, frame, referenceSpace, poseOut, cbOut) ==
    IF trackableImage = Null \/ referenceSpace = Null THEN Return(t, Null)
    ELSE IF ~frame.hasFn THEN Return(t, Null)
    ELSE CatchBlock(TryBlock(t, frame, referenceSpace, poseOut, cbOut))

(***************************************************************************)
(* The record of a completed call.                                         *)
(***************************************************************************)
NoFrame == [hasFn |-> FALSE, kind |-> "none", list |-> <<>>]

Pre ==
    [trackableImage |-> trackableImage,
     markerImageLoaded |-> markerImageLoaded,
     isMarkerDetected |-> isMarkerDetected,
     currentMarkerPose |-> currentMarkerPose,
     onMarkerDetectedCallback |-> onMarkerDetectedCallback,
     onMarkerLostCallback |-> onMarkerLostCallback]

Call(op) ==
    [op |-> op,
     pre |-> Pre,
     frame |-> NoFrame,
     referenceSpace |-> Null,
     arg |-> Null,
     flag |-> FALSE,
     answer |-> Undefined,
     config |-> NoConfig,
     image |-> NoImage,
     platform |-> NoPlatform,
     ret |-> Undefined,
     err |-> "none",
     exc |-> FALSE,
     caught |-> FALSE,
     detectedCalls |-> <<>>,
     lostCalls |-> <<>>,
     enumCalls |-> 0,
     poseQueries |-> <<>>]

Init ==
    /\ trackableImage = Null
    /\ markerImageLoaded = FALSE
    /\ isMarkerDetected = FALSE
    /\ currentMarkerPose = Null
    /\ onMarkerDetectedCallback = Null
    /\ onMarkerLostCallback = Null
    /\ markerConfig = MARKER_CONFIG
    /\ initPc = "idle"
    /\ last = Call("none")
    /\ returnedConfig = [alias |-> FALSE, value |-> NoConfig]
    /\ scenario = NoScenario
    /\ registered = [detected |-> Null, lost |-> Null]
    /\ outer = NoOuter
    /\ fired = NoneFired
    /\ main = PageLoaded

\* One call updateMarkerTracking(frame, referenceSpace), the pose query
\* answering poseOut and an invoked callback ending as cbOut.
UpdateWith(frame, referenceSpace, poseOut, cbOut) ==
        LET t == updateMarkerTracking(StartOfCall, frame, referenceSpace, poseOut, cbOut)
        IN  \* an answer the call never asked for is no input of the call
            /\ t.poseQueries = <<>> => poseOut = Null
            /\ t.detectedCalls = <<>> /\ t.lostCalls = <<>> => cbOut = "return"
            /\ isMarkerDetected' = t.isMarkerDetected
            /\ currentMarkerPose' = t.currentMarkerPose
            /\ last' = [Call("update") EXCEPT
                            !.frame = frame,
                            !.referenceSpace = referenceSpace,
                            !.ret = t.ret,
                            !.exc = t.exc,
                            !.caught = t.caught,
                            !.detectedCalls = t.detectedCalls,
                            !.lostCalls = t.lostCalls,
                            !.enumCalls = t.enumCalls,
                            !.poseQueries = t.poseQueries]
            /\ UNCHANGED <<trackableImage, markerImageLoaded, onMarkerDetectedCallback,
                           onMarkerLostCallback, markerConfig, initPc, returnedConfig,
                           registered, main>>

\* The render loop calls updateMarkerTracking(frame, referenceSpace).
UpdateMarkerTracking ==
    /\ last.op = "none"
    /\ \E frame \in Frames, referenceSpace \in ReferenceSpaces,
          poseOut \in PoseOutcomes, cbOut \in CallbackOutcomes :
            UpdateWith(frame, referenceSpace, poseOut, cbOut)
    /\ UNCHANGED <<scenario, outer, fired>>

\* onMarkerDetected that notifies at once when the marker is already detected
OnMarkerDetectedReplays ==
    /\ last.op = "none"
    /\ \E callback \in Callbacks \cup {Null} :
        /\ onMarkerDetectedCallback' = callback
        /\ registered' = [registered EXCEPT !.detected = callback]
        /\ last' = [Call("onMarkerDetected") EXCEPT
                        !.arg = callback,
                        !.detectedCalls =
                            IF isMarkerDetected /\ callback # Null
                            THEN <<[cb |-> callback, pose |-> currentMarkerPose,
                                    sawDetected |-> isMarkerDetected,
                                    sawPose |-> currentMarkerPose]>>
                            ELSE <<>>]
        /\ UNCHANGED <<trackableImage, markerImageLoaded, isMarkerDetected,
                       currentMarkerPose, onMarkerLostCallback, initPc>>
        /\ UNCHANGED <<markerConfig, returnedConfig, scenario, outer, fired, main>>

\* onMarkerDetected that keeps the callback it already holds
OnMarkerDetectedFirstWins ==
    /\ last.op = "none"
    /\ \E callback \in Callbacks \cup {Null} :
        /\ onMarkerDetectedCallback' =
                IF onMarkerDetectedCallback = Null THEN callback
                ELSE onMarkerDetectedCallback
        /\ registered' = [registered EXCEPT !.detected = callback]
        /\ last' = [Call("onMarkerDetected") EXCEPT !.arg = callback]
        /\ UNCHANGED <<trackableImage, markerImageLoaded, isMarkerDetected,
                       currentMarkerPose, onMarkerLostCallback, initPc>>
        /\ UNCHANGED <<markerConfig, returnedConfig, scenario, outer, fired, main>>

\* marker-tracker.js:342-344
OnMarkerDetected ==
    /\ last.op = "none"
    /\ \E callback \in Callbacks \cup {Null} :
        /\ onMarkerDetectedCallback' = callback
        /\ registered' = [registered EXCEPT !.detected = callback]
        /\ last' = [Call("onMarkerDetected") EXCEPT !.arg = callback]
        /\ UNCHANGED <<trackableImage, markerImageLoaded, isMarkerDetected,
                       currentMarkerPose, onMarkerLostCallback, initPc>>
        /\ UNCHANGED <<markerConfig, returnedConfig, scenario, outer, fired, main>>

\* marker-tracker.js:350-352
OnMarkerLost ==
    /\ last.op = "none"
    /\ \E callback \in Callbacks \cup {Null} :
        /\ onMarkerLostCallback' = callback
        /\ registered' = [registered EXCEPT !.lost = callback]
        /\ last' = [Call("onMarkerLost") EXCEPT !.arg = callback]
        /\ UNCHANGED <<trackableImage, markerImageLoaded, isMarkerDetected,
                       currentMarkerPose, onMarkerDetectedCallback, initPc>>
        /\ UNCHANGED <<markerConfig, returnedConfig, scenario, outer, fired, main>>

\* marker-tracker.js:358-360
IsMarkerCurrentlyDetected ==
    /\ last.op = "none"
    /\ last' = [Call("isMarkerCurrentlyDetected") EXCEPT !.flag = isMarkerDetected]
    /\ UNCHANGED <<trackableImage, markerImageLoaded, isMarkerDetected, currentMarkerPose,
                   onMarkerDetectedCallback, onMarkerLostCallback, initPc>>
    /\ UNCHANGED aux

\* marker-tracker.js:366-368
GetCurrentMarkerPose ==
    /\ last.op = "none"
    /\ last' = [Call("getCurrentMarkerPose") EXCEPT !.ret = currentMarkerPose]
    /\ UNCHANGED <<trackableImage, markerImageLoaded, isMarkerDetected, currentMarkerPose,
                   onMarkerDetectedCallback, onMarkerLostCallback, initPc>>
    /\ UNCHANGED aux

\* getMarkerConfig that hands out MARKER_CONFIG itself
getMarkerConfigShared(config) == [alias |-> TRUE, value |-> config]

\* marker-tracker.js:201-203  { ...MARKER_CONFIG }: a new object with the
\* fields of config; alias tells whether the object is config itself
getMarkerConfig(config) == [alias |-> FALSE, value |-> config]

\* One call getMarkerConfig(); the caller keeps the object or only reads it.
GetMarkerConfigBy(keeps) ==
    /\ last.op = "none"
    /\ LET given == getMarkerConfig(markerConfig)
       IN  /\ last' = [Call("getMarkerConfig") EXCEPT !.config = given.value]
           /\ returnedConfig' = IF keeps THEN given ELSE returnedConfig
    /\ UNCHANGED <<trackableImage, markerImageLoaded, isMarkerDetected, currentMarkerPose,
                   onMarkerDetectedCallback, onMarkerLostCallback, initPc>>
    /\ UNCHANGED <<markerConfig, scenario, registered, outer, fired, main>>

\* marker-tracker.js:201-203
GetMarkerConfig == GetMarkerConfigBy(FALSE)

\* marker-tracker.js:30  fetch(MARKER_CONFIG.imagePath)
PathFetched(config) == [NoConfig EXCEPT !.imagePath = config.imagePath]

\* marker-tracker.js:117-120: the options of requestImageTrackableImage
OptionsPassed(config) ==
    [NoConfig EXCEPT
        !.physicalWidth = config.physicalWidth,
        !.physicalHeight = IF config.physicalHeight # 0 THEN config.physicalHeight
                           ELSE config.physicalWidth]

\* what a caller may write into a configuration object it was given:
\* another path, or no size
ConfigFields == {"imagePath", "physicalWidth", "physicalHeight"}
Overwrite(config, field) ==
    IF field = "imagePath" THEN [config EXCEPT !.imagePath = "/other.jpg"]
    ELSE IF field = "physicalWidth" THEN [config EXCEPT !.physicalWidth = 0]
    ELSE [config EXCEPT !.physicalHeight = 0]

\* The caller of getMarkerConfig writes a field of the object it keeps; if
\* that object is MARKER_CONFIG itself, the write is a write to MARKER_CONFIG.
CallerMutatesConfig ==
    /\ last.op = "none"
    /\ returnedConfig.value # NoConfig
    /\ \E field \in ConfigFields :
        LET changed == Overwrite(returnedConfig.value, field)
        IN  /\ changed # returnedConfig.value
            /\ returnedConfig' = [returnedConfig EXCEPT !.value = changed]
            /\ markerConfig' = IF returnedConfig.alias THEN changed ELSE markerConfig
    /\ UNCHANGED <<trackableImage, markerImageLoaded, isMarkerDetected, currentMarkerPose,
                   onMarkerDetectedCallback, onMarkerLostCallback, initPc, last,
                   scenario, registered, outer, fired, main>>

\* the first getMarkerConfig() of a caller that keeps what it gets
KeepMarkerConfig ==
    /\ returnedConfig.value = NoConfig
    /\ GetMarkerConfigBy(TRUE)

(***************************************************************************)
(* initializeMarkerTracking, cut at its awaits.                            *)
(***************************************************************************)

\* loadMarkerImage that does not read a small blob as text
loadMarkerImageNoPointerCheck(image) ==
    LET err == IF image.fetch = "reject" THEN "fetch-rejected"
               ELSE IF image.fetch = "notok" THEN "not-ok"
               ELSE IF image.size < LfsPointerLimit THEN "too-small"
               ELSE IF ~image.decodable THEN "decode-failed"
               ELSE "none"
    IN  [err |-> err, lfsHelp |-> err \in {"not-ok", "too-small"}]

\* marker-tracker.js:25-78: the error loadMarkerImage throws, "none" if it
\* returns the bitmap; lfsHelp is whether the message gets the Git LFS text.
loadMarkerImage(image) ==
    LET err == IF image.fetch = "reject" THEN "fetch-rejected"
               ELSE IF image.fetch = "notok" THEN "not-ok"
               ELSE IF image.size < LfsPointerLimit
               THEN (IF image.pointer THEN "lfs-pointer" ELSE "too-small")
               ELSE IF ~image.decodable THEN "decode-failed"
               ELSE "none"
    IN  [err |-> err, lfsHelp |-> err \in {"not-ok", "lfs-pointer", "too-small"}]

\* isUnsupportedPlatform that takes every desktop browser for unsupported
isUnsupportedPlatformAnyDesktop(platform) ==
    LET isDesktop == ~platform.mobileAgent
    IN  platform.isMac \/ isDesktop

\* marker-tracker.js:84-90
isUnsupportedPlatform(platform) ==
    LET isDesktop == ~platform.mobileAgent
    IN  platform.isMac \/ (isDesktop /\ ~platform.chromeAgent)

\* marker-tracker.js:102-113: the error of the capability check, "none" if
\* the image tracking API is there
CapabilityCheck(platform) ==
    IF ~platform.imageTracking \/ ~platform.requestFn
    THEN (IF isUnsupportedPlatform(platform) THEN "unsupported-platform"
          ELSE "api-unavailable")
    ELSE "none"

\* marker-tracker.js:158-170: what initializeMarkerTracking does with an error
\* of registerTrackableImage: TRUE if it returns null, FALSE if it rethrows
RegistrationErrorIsExpected(err) == err = "unsupported-platform"

\* marker-tracker.js:152-155: the call, up to the first await
InitializeMarkerTracking ==
    /\ last.op = "none"
    /\ initPc = "idle"
    /\ initPc' = "loading"
    /\ last' = [Call("initialize") EXCEPT !.config = PathFetched(markerConfig)]
    /\ UNCHANGED <<trackableImage, markerImageLoaded, isMarkerDetected, currentMarkerPose,
                   onMarkerDetectedCallback, onMarkerLostCallback>>
    /\ UNCHANGED aux

\* LoadMarkerImageSettles that sets markerImageLoaded once the blob is there,
\* before the blob is tested and decoded
LoadMarkerImageSettlesFlagsEarly ==
    /\ last.op = "none"
    /\ initPc = "loading"
    /\ \E image \in Images, platform \in Platforms :
        LET loaded == loadMarkerImage(image)
            cap == CapabilityCheck(platform)
        IN  IF loaded.err # "none"
            THEN /\ initPc' = "idle"
                 /\ last' = [Call("initialized") EXCEPT
                                !.image = image, !.err = loaded.err, !.exc = TRUE]
                 /\ markerImageLoaded' = (markerImageLoaded \/ image.fetch = "ok")
            ELSE /\ markerImageLoaded' = TRUE
                 /\ IF cap = "none"
                    THEN /\ initPc' = "registering"
                         /\ last' = [Call("loaded") EXCEPT
                                        !.image = image, !.platform = platform,
                                        !.config = OptionsPassed(markerConfig)]
                    ELSE /\ initPc' = "idle"
                         /\ last' = [Call("initialized") EXCEPT
                                        !.image = image, !.platform = platform,
                                        !.err = cap,
                                        !.exc = ~RegistrationErrorIsExpected(cap),
                                        !.ret = IF RegistrationErrorIsExpected(cap)
                                                THEN Null ELSE Undefined]
    /\ UNCHANGED <<trackableImage, isMarkerDetected, currentMarkerPose,
                   onMarkerDetectedCallback, onMarkerLostCallback>>
    /\ UNCHANGED aux

\* marker-tracker.js:25-78, 155-178, 98-117: loadMarkerImage settles and, if it
\* gave the bitmap, registerTrackableImage runs up to its await
LoadMarkerImageSettles ==
    /\ last.op = "none"
    /\ initPc = "loading"
    /\ \E image \in Images, platform \in Platforms :
        LET loaded == loadMarkerImage(image)
            cap == CapabilityCheck(platform)
        IN  IF loaded.err # "none"
            THEN /\ initPc' = "idle"
                 /\ last' = [Call("initialized") EXCEPT
                                !.image = image, !.err = loaded.err, !.exc = TRUE]
                 /\ UNCHANGED markerImageLoaded
            ELSE /\ markerImageLoaded' = TRUE
                 /\ IF cap = "none"
                    THEN /\ initPc' = "registering"
                         /\ last' = [Call("loaded") EXCEPT
                                        !.image = image, !.platform = platform,
                                        !.config = OptionsPassed(markerConfig)]
                    ELSE /\ initPc' = "idle"
                         /\ last' = [Call("initialized") EXCEPT
                                        !.image = image, !.platform = platform,
                                        !.err = cap,
                                        !.exc = ~RegistrationErrorIsExpected(cap),
                                        !.ret = IF RegistrationErrorIsExpected(cap)
                                                THEN Null ELSE Undefined]
    /\ UNCHANGED <<trackableImage, isMarkerDetected, currentMarkerPose,
                   onMarkerDetectedCallback, onMarkerLostCallback>>
    /\ UNCHANGED aux

\* RequestImageTrackableImageSettles that forgets the held handle when the
\* request is rejected
RequestImageTrackableImageSettlesDropsHandle ==
    /\ last.op = "none"
    /\ initPc = "registering"
    /\ initPc' = "idle"
    /\ \E trackedImage \in Handles \cup {Null, Throws} :
        IF trackedImage = Throws
        THEN /\ last' = [Call("initialized") EXCEPT
                            !.answer = trackedImage, !.err = "request-rejected", !.exc = TRUE]
             /\ trackableImage' = Null
        ELSE IF trackedImage = Null
        THEN /\ last' = [Call("initialized") EXCEPT
                            !.answer = trackedImage, !.err = "no-trackable", !.exc = TRUE]
             /\ UNCHANGED trackableImage
        ELSE /\ trackableImage' = trackedImage
             /\ last' = [Call("initialized") EXCEPT
                            !.answer = trackedImage, !.ret = trackedImage]
    /\ UNCHANGED <<markerImageLoaded, isMarkerDetected, currentMarkerPose,
                   onMarkerDetectedCallback, onMarkerLostCallback>>
    /\ UNCHANGED aux

\* RequestImageTrackableImageSettles that stores what the request gave before
\* it tests it
RequestImageTrackableImageSettlesStoresFirst ==
    /\ last.op = "none"
    /\ initPc = "registering"
    /\ initPc' = "idle"
    /\ \E trackedImage \in Handles \cup {Null, Throws} :
        IF trackedImage = Throws
        THEN /\ last' = [Call("initialized") EXCEPT
                            !.answer = trackedImage, !.err = "request-rejected", !.exc = TRUE]
             /\ UNCHANGED trackableImage
        ELSE IF trackedImage = Null
        THEN /\ last' = [Call("initialized") EXCEPT
                            !.answer = trackedImage, !.err = "no-trackable", !.exc = TRUE]
             /\ trackableImage' = trackedImage
        ELSE /\ trackableImage' = trackedImage
             /\ last' = [Call("initialized") EXCEPT
                            !.answer = trackedImage, !.ret = trackedImage]
    /\ UNCHANGED <<markerImageLoaded, isMarkerDetected, currentMarkerPose,
                   onMarkerDetectedCallback, onMarkerLostCallback>>
    /\ UNCHANGED aux

\* marker-tracker.js:117-134, 159-170: session.requestImageTrackableImage settles
RequestImageTrackableImageSettles ==
    /\ last.op = "none"
    /\ initPc = "registering"
    /\ initPc' = "idle"
    /\ \E trackedImage \in Handles \cup {Null, Throws} :
        IF trackedImage = Throws
        THEN /\ last' = [Call("initialized") EXCEPT
                            !.answer = trackedImage, !.err = "request-rejected", !.exc = TRUE]
             /\ UNCHANGED trackableImage
        ELSE IF trackedImage = Null
        THEN /\ last' = [Call("initialized") EXCEPT
                            !.answer = trackedImage, !.err = "no-trackable", !.exc = TRUE]
             /\ UNCHANGED trackableImage
        ELSE /\ trackableImage' = trackedImage
             /\ last' = [Call("initialized") EXCEPT
                            !.answer = trackedImage, !.ret = trackedImage]
    /\ UNCHANGED <<markerImageLoaded, isMarkerDetected, currentMarkerPose,
                   onMarkerDetectedCallback, onMarkerLostCallback>>
    /\ UNCHANGED aux

\* The caller takes what the call gave and goes on; the record of the call
\* is closed, and the next call opens a new one.
CallerContinues ==
    /\ last.op # "none"
    /\ last' = Call("none")
    /\ UNCHANGED <<trackableImage, markerImageLoaded, isMarkerDetected, currentMarkerPose,
                   onMarkerDetectedCallback, onMarkerLostCallback, initPc>>
    /\ UNCHANGED aux

Next ==
    \/ InitializeMarkerTracking
    \/ LoadMarkerImageSettles
    \/ RequestImageTrackableImageSettles
    \/ UpdateMarkerTracking
    \/ OnMarkerDetected
    \/ OnMarkerLost
    \/ IsMarkerCurrentlyDetected
    \/ GetCurrentMarkerPose
    \/ GetMarkerConfig
    \/ CallerContinues

Spec == Init /\ [][Next]_vars
(***************************************************************************)
(* A scripted run: from Idle, with a handle and both callbacks registered, *)
(* the render loop feeds the frames of Scenario A one after the other,     *)
(* each with a reference space.  scenario keeps what the run has seen.     *)
(***************************************************************************)
ScenarioA == <<"untracked", "tracked", "tracked", "empty">>

\* the frames of one kind: an empty (or no) result list, or a list whose
\* first result of our image has the quality asked for
ScenarioFrames(kind) ==
    IF kind = "empty"
    THEN {f \in Frames : f.kind = "null" \/ (f.kind = "list" /\ Len(f.list) = 0)}
    ELSE {f \in Frames :
            /\ f.kind = "list"
            /\ \E i \in 1 .. Len(f.list) :
                /\ f.list[i].trackedImage = trackableImage
                /\ f.list[i].trackingState = kind
                /\ \A j \in 1 .. (i - 1) : f.list[j].trackedImage # trackableImage}

InitScenario ==
    /\ trackableImage \in Handles
    /\ markerImageLoaded = TRUE
    /\ isMarkerDetected = FALSE
    /\ currentMarkerPose = Null
    /\ onMarkerDetectedCallback \in Callbacks
    /\ onMarkerLostCallback \in Callbacks
    /\ markerConfig = MARKER_CONFIG
    /\ initPc = "idle"
    /\ last = Call("none")
    /\ returnedConfig = [alias |-> FALSE, value |-> NoConfig]
    /\ scenario = NoScenario
    /\ registered = [detected |-> onMarkerDetectedCallback, lost |-> onMarkerLostCallback]
    /\ outer = NoOuter
    /\ fired = NoneFired
    /\ main = PageLoaded

\* the next frame of the scenario is processed
ScenarioFrame ==
    /\ last.op = "none"
    /\ scenario.step < Len(ScenarioA)
    /\ LET k == scenario.step + 1
       IN  \E frame \in ScenarioFrames(ScenarioA[k]),
              referenceSpace \in ReferenceSpaces \ {Null},
              poseOut \in Poses \cup {Null}, cbOut \in CallbackOutcomes :
            /\ ScenarioA[k] = "tracked" => poseOut \in Poses
            /\ UpdateWith(frame, referenceSpace, poseOut, cbOut)
            /\ scenario' =
                [step |-> k,
                 returns |-> Append(scenario.returns, last'.ret),
                 answers |-> Append(scenario.answers, poseOut),
                 detected |-> scenario.detected \o
                                [c \in 1 .. Len(last'.detectedCalls) |->
                                    [step |-> k, pose |-> last'.detectedCalls[c].pose]],
                 lost |-> scenario.lost \o [c \in 1 .. Len(last'.lostCalls) |-> k],
                 threw |-> scenario.threw \/ last'.caught]
    /\ UNCHANGED <<outer, fired>>

NextScenario ==
    \/ ScenarioFrame
    \/ CallerContinues

SpecScenario == InitScenario /\ [][NextScenario]_vars

(***************************************************************************)
(* A caller that keeps the configuration it was given and writes into it,  *)
(* while the module is initialized and asked for its configuration again.  *)
(***************************************************************************)
NextConfig ==
    \/ InitializeMarkerTracking
    \/ LoadMarkerImageSettles
    \/ RequestImageTrackableImageSettles
    \/ KeepMarkerConfig
    \/ CallerMutatesConfig
    \/ GetMarkerConfig
    \/ CallerContinues

SpecConfig == Init /\ [][NextConfig]_vars

(***************************************************************************)
(* A callback that calls updateMarkerTracking again, with the frame and    *)
(* the reference space of the call that invoked it.  The outer call is cut *)
(* at the invocation of the callback: the module state is then what the    *)
(* code has written before the invocation, and the nested call runs on it. *)
(***************************************************************************)

\* marker-tracker.js:212-299 up to the callback invocation at 319 or 334;
\* ends is how the callback is going to end
EnterCallback ==
    /\ last.op = "none"
    /\ outer.pc = "none"
    /\ \E frame \in Frames, referenceSpace \in ReferenceSpaces,
          poseOut \in PoseOutcomes, cbOut \in CallbackOutcomes :
        LET t == updateMarkerTracking(StartOfCall, frame, referenceSpace, poseOut, cbOut)
            onDetected == t.detectedCalls # <<>>
            onLost == t.lostCalls # <<>>
        IN  /\ onDetected \/ onLost
            /\ isMarkerDetected' = IF onDetected THEN t.detectedCalls[1].sawDetected
                                   ELSE t.lostCalls[1].sawDetected
            /\ currentMarkerPose' = IF onDetected THEN t.detectedCalls[1].sawPose
                                    ELSE t.lostCalls[1].sawPose
            /\ outer' = [pc |-> IF onDetected THEN "onDetected" ELSE "onLost",
                         frame |-> frame,
                         referenceSpace |-> referenceSpace,
                         pose |-> IF onDetected THEN t.detectedCalls[1].pose ELSE Null,
                         pre |-> [isMarkerDetected |-> isMarkerDetected,
                                  currentMarkerPose |-> currentMarkerPose],
                         ends |-> cbOut,
                         run |-> t,
                         reentered |-> FALSE, nestedDetected |-> 0, nestedLost |-> 0]
    /\ UNCHANGED <<trackableImage, markerImageLoaded, onMarkerDetectedCallback,
                   onMarkerLostCallback, markerConfig, initPc, last, returnedConfig,
                   scenario, registered, fired, main>>

\* the callback calls updateMarkerTracking(frame, referenceSpace) itself
Reenter ==
    /\ last.op = "none"
    /\ outer.pc # "none"
    /\ ~outer.reentered
    /\ \E poseOut \in PoseOutcomes, cbOut \in CallbackOutcomes :
            UpdateWith(outer.frame, outer.referenceSpace, poseOut, cbOut)
    /\ outer' = [outer EXCEPT !.reentered = TRUE,
                              !.nestedDetected = Len(last'.detectedCalls),
                              !.nestedLost = Len(last'.lostCalls)]
    /\ UNCHANGED <<scenario, fired>>

\* marker-tracker.js:266-270, 232, 249, 283, 291, 294-298: the callback returns
\* or throws, and the outer call runs to its end
CallbackEnds ==
    /\ last.op = "none"
    /\ outer.pc # "none"
    /\ IF outer.pc = "onDetected" /\ outer.ends = "return"
       THEN /\ currentMarkerPose' = outer.pose
            /\ isMarkerDetected' = TRUE
       ELSE UNCHANGED <<isMarkerDetected, currentMarkerPose>>
    /\ last' = [Call("update") EXCEPT
                    !.pre = [@ EXCEPT
                                !.isMarkerDetected = outer.pre.isMarkerDetected,
                                !.currentMarkerPose = outer.pre.currentMarkerPose],
                    !.frame = outer.frame,
                    !.referenceSpace = outer.referenceSpace,
                    !.ret = outer.run.ret,
                    !.exc = outer.run.exc,
                    !.caught = outer.run.caught,
                    !.detectedCalls = outer.run.detectedCalls,
                    !.lostCalls = outer.run.lostCalls,
                    !.enumCalls = outer.run.enumCalls,
                    !.poseQueries = outer.run.poseQueries]
    /\ outer' = NoOuter
    /\ UNCHANGED <<trackableImage, markerImageLoaded, onMarkerDetectedCallback,
                   onMarkerLostCallback, markerConfig, initPc, returnedConfig,
                   scenario, registered, fired, main>>

NextReentrant ==
    \/ EnterCallback
    \/ Reenter
    \/ CallbackEnds
    \/ CallerContinues

SpecReentrant == InitScenario /\ [][NextReentrant]_vars

(***************************************************************************)
(* A run of update calls with both callbacks registered before the first   *)
(* call and never replaced.  fired follows the invocations of the run.     *)
(***************************************************************************)

\* one more invocation, of the on-detected ("detected") or on-lost ("lost") callback
Fire(f, kind) ==
    [latest |-> kind,
     count |-> IF f.count < MaxFired THEN f.count + 1 ELSE f.count,
     alternates |-> /\ f.alternates
                    /\ IF kind = "detected" THEN f.latest # "detected"
                       ELSE f.latest = "detected"]

RECURSIVE FireAll(_, _)
FireAll(f, kinds) ==
    IF kinds = <<>> THEN f ELSE FireAll(Fire(f, Head(kinds)), Tail(kinds))

\* the next update call of the run
RunUpdate ==
    /\ last.op = "none"
    /\ \E frame \in Frames, referenceSpace \in ReferenceSpaces,
          poseOut \in PoseOutcomes, cbOut \in CallbackOutcomes :
            UpdateWith(frame, referenceSpace, poseOut, cbOut)
    /\ fired' = FireAll(fired, [c \in 1 .. Len(last'.detectedCalls) |-> "detected"]
                               \o [c \in 1 .. Len(last'.lostCalls) |-> "lost"])
    /\ UNCHANGED <<scenario, outer>>

NextRun ==
    \/ RunUpdate
    \/ CallerContinues

SpecRun == InitScenario /\ [][NextRun]_vars

(***************************************************************************)
(* main.js: the session bootstrap requestARSession, cut at its awaits, the *)
(* frame callback onXRFrame and the handler of the session's 'end' event.  *)
(* The XR runtime grants or refuses what is requested, ends the session    *)
(* when it likes, and delivers the frame callbacks that were requested.    *)
(***************************************************************************)
tracker == <<trackableImage, markerImageLoaded, isMarkerDetected, currentMarkerPose,
             onMarkerDetectedCallback, onMarkerLostCallback, markerConfig, initPc, last,
             returnedConfig, scenario, registered, outer, fired>>

XRLayers == {"none", "framebuffer", "null"}

\* main.js:117-131: up to navigator.xr.requestSession
RequestARSession ==
    /\ main.pc = "start"
    /\ \E hasXr \in BOOLEAN :
            main' = [main EXCEPT !.pc = IF hasXr THEN "session" ELSE "failed"]
    /\ UNCHANGED tracker

\* main.js:131-154: requestSession settles; with a session and a WebGL
\* context the layer is made and updateRenderState is called
RequestSessionSettles ==
    /\ main.pc = "session"
    /\ \E granted \in BOOLEAN, gl \in BOOLEAN :
            main' = IF granted
                    THEN [main EXCEPT !.xrSession = TRUE,
                                      !.pc = IF gl THEN "renderState" ELSE "failed"]
                    ELSE [main EXCEPT !.pc = "failed"]
    /\ UNCHANGED tracker

\* main.js:154-200: updateRenderState settles; requestReferenceSpace is called
UpdateRenderStateSettles ==
    /\ main.pc = "renderState"
    /\ \E ok \in BOOLEAN :
        /\ ok => ~main.ended
        /\ main' = [main EXCEPT !.pc = IF ok THEN "space" ELSE "failed"]
    /\ UNCHANGED tracker

\* main.js:200-212: requestReferenceSpace settles; the 'end' listener is
\* installed and the first frame callback requested
RequestReferenceSpaceSettles ==
    /\ main.pc = "space"
    /\ \E ok \in BOOLEAN :
        /\ ok => ~main.ended
        /\ main' = IF ok
                   THEN [main EXCEPT !.referenceSpace = TRUE,
                                     !.listening = TRUE,
                                     !.pending = @ + 1,
                                     !.pc = "running"]
                   ELSE [main EXCEPT !.pc = "failed"]
    /\ UNCHANGED tracker

\* main.js:335-347
handleSessionEnd(m) ==
    [m EXCEPT !.xrSession = FALSE, !.referenceSpace = FALSE, !.handled = TRUE]

\* The runtime ends the session and dispatches 'end' to the listener, if one
\* is installed (main.js:205).
SessionEnds ==
    /\ main.xrSession
    /\ ~main.ended
    /\ main' = IF main.listening THEN handleSessionEnd([main EXCEPT !.ended = TRUE])
               ELSE [main EXCEPT !.ended = TRUE]
    /\ UNCHANGED tracker

\* what onXRFrame binds: the layer's framebuffer, the default one, or nothing
Bound(gl, layer) ==
    IF ~gl \/ layer = "none" THEN "none"
    ELSE IF layer = "framebuffer" THEN "xr" ELSE "default"

\* onXRFrame that counts the frame before it tests the session
onXRFrameCountsFirst(m, gl, layer, viewerPose) ==
    LET c == [m EXCEPT !.frameCount = @ + 1]
    IN  IF ~m.xrSession \/ ~m.referenceSpace THEN c
        ELSE [c EXCEPT !.pending = IF m.ended THEN @ ELSE @ + 1]

\* main.js:224-333; requestAnimationFrame of an ended session requests nothing
onXRFrame(m, gl, layer, viewerPose) ==
    IF ~m.xrSession \/ ~m.referenceSpace THEN m
    ELSE [m EXCEPT !.frameCount = @ + 1,
                   !.pending = IF m.ended THEN @ ELSE @ + 1]

\* The runtime delivers a requested frame callback.
OnXRFrame ==
    /\ main.pending > 0
    /\ main.xrSession /\ main.referenceSpace => main.frameCount < MaxFrames
    /\ \E gl \in BOOLEAN, layer \in XRLayers, viewerPose \in BOOLEAN :
        LET delivered == [main EXCEPT !.pending = @ - 1]
            m == onXRFrame(delivered, gl, layer, viewerPose)
            passed == m.frameCount # main.frameCount
        IN  \* what the callback never read is no input of the callback
            /\ ~passed => ~gl /\ layer = "none" /\ ~viewerPose
            /\ ~gl => layer = "none" /\ ~viewerPose
            /\ main' = [m EXCEPT !.frame =
                            [ran |-> TRUE,
                             hadSession |-> main.xrSession,
                             hadSpace |-> main.referenceSpace,
                             counted |-> passed,
                             requested |-> m.pending > delivered.pending,
                             bound |-> IF passed THEN Bound(gl, layer) ELSE "none",
                             viewerPose |-> viewerPose]]
    /\ UNCHANGED tracker

NextMain ==
    \/ RequestARSession
    \/ RequestSessionSettles
    \/ UpdateRenderStateSettles
    \/ RequestReferenceSpaceSettles
    \/ SessionEnds
    \/ OnXRFrame

SpecMain == Init /\ [][NextMain]_vars

(***************************************************************************)
(* Vocabulary of the properties.  These read the record of the completed   *)
(* call (last), never the operators above: what the frame held is read     *)
(* from the frame, what the code did from the calls it made.               *)
(***************************************************************************)
UpdateDone == last.op = "update"

\* the call had a registered handle and a reference space
Armed == last.pre.trackableImage # Null /\ last.referenceSpace # Null

\* the frame offers getImageTrackingResults
Enumerable == last.frame.hasFn

\* the frame gave a list in which result i is the first one of our image
FirstMatch(i) ==
    /\ last.frame.kind = "list"
    /\ i \in 1 .. Len(last.frame.list)
    /\ last.frame.list[i].trackedImage = last.pre.trackableImage
    /\ \A j \in 1 .. (i - 1) : last.frame.list[j].trackedImage # last.pre.trackableImage

HasMatch == \E i \in 1 .. MaxResults : FirstMatch(i)

\* the matching entry has quality q
MatchQuality(q) ==
    \E i \in 1 .. MaxResults : FirstMatch(i) /\ last.frame.list[i].trackingState = q

\* the frame gave no list, or an empty one
NoResults ==
    \/ last.frame.kind = "null"
    \/ last.frame.kind = "list" /\ Len(last.frame.list) = 0

\* what the one pose query of the call answered
Queried == Len(last.poseQueries) = 1
PoseAnswer == last.poseQueries[1].outcome
PoseObtained == Queried /\ PoseAnswer \in Poses
PoseMissing == Queried /\ PoseAnswer = Null
PoseQueryThrew == Queried /\ PoseAnswer = Throws
EnumerationThrew == last.enumCalls = 1 /\ last.frame.kind = "throw"

NoCallback == last.detectedCalls = <<>> /\ last.lostCalls = <<>>
ReturnedNone == last.ret \in {Null, Undefined} /\ ~last.exc
Unchanged ==
    /\ isMarkerDetected = last.pre.isMarkerDetected
    /\ currentMarkerPose = last.pre.currentMarkerPose

BecameDetected == ~last.pre.isMarkerDetected /\ isMarkerDetected
BecameIdle == last.pre.isMarkerDetected /\ ~isMarkerDetected

(***************************************************************************)
(* C1.  In every update call made with a registered handle, a reference    *)
(* space and an on-detected callback registered: isMarkerDetected goes     *)
(* from false to true only if the matching entry is "tracked" and the pose *)
(* query returned a pose; on such a call the callback is invoked exactly   *)
(* once, with that pose; on every other call it is not invoked.            *)
(***************************************************************************)
C1_DetectedEdge ==
    (UpdateDone /\ Armed /\ last.pre.onMarkerDetectedCallback # Null) =>
        /\ BecameDetected => Enumerable /\ MatchQuality("tracked") /\ PoseObtained
        /\ BecameDetected =>
              /\ Len(last.detectedCalls) = 1
              /\ last.detectedCalls[1].cb = last.pre.onMarkerDetectedCallback
              /\ last.detectedCalls[1].pose = PoseAnswer
        /\ ~BecameDetected => last.detectedCalls = <<>>

C1_Witness ==
    /\ UpdateDone /\ Armed /\ last.pre.onMarkerDetectedCallback # Null
    /\ BecameDetected
    /\ Len(last.detectedCalls) = 1

(***************************************************************************)
(* C2.  In every update call made with an on-lost callback registered:     *)
(* the callback is invoked exactly once if isMarkerDetected goes from true *)
(* to false in the call, never if the call starts Idle, and never more     *)
(* than once in one call.                                                  *)
(***************************************************************************)
C2_LostEdge ==
    (UpdateDone /\ last.pre.onMarkerLostCallback # Null) =>
        /\ BecameIdle =>
              /\ Len(last.lostCalls) = 1
              /\ last.lostCalls[1].cb = last.pre.onMarkerLostCallback
        /\ ~BecameIdle => last.lostCalls = <<>>
        /\ ~last.pre.isMarkerDetected => last.lostCalls = <<>>
        /\ Len(last.lostCalls) <= 1

C2_Witness ==
    /\ UpdateDone /\ last.pre.onMarkerLostCallback # Null
    /\ BecameIdle
    /\ Len(last.lostCalls) = 1

(***************************************************************************)
(* C3.  With a handle, a reference space, a frame that enumerates and the  *)
(* matching entry's quality among tracked, emulated, untracked: a call     *)
(* that starts Detected ends Idle, the pose cleared and none returned, if  *)
(* and only if the result set is absent or empty, or no entry matches, or  *)
(* the matching entry is untracked, or it is emulated and the pose query   *)
(* returns no pose; on every other input it stays Detected.  The same      *)
(* inputs met in Idle change nothing.                                      *)
(***************************************************************************)
LosingInput ==
    \/ NoResults
    \/ last.frame.kind = "list" /\ ~HasMatch
    \/ MatchQuality("untracked")
    \/ MatchQuality("emulated") /\ PoseMissing

C3_LostExactlyOn ==
    (UpdateDone /\ Armed /\ Enumerable /\ ~MatchQuality("other")) =>
        /\ last.pre.isMarkerDetected /\ LosingInput =>
              ~isMarkerDetected /\ currentMarkerPose = Null /\ last.ret = Null
        /\ last.pre.isMarkerDetected /\ ~LosingInput => isMarkerDetected
        /\ ~last.pre.isMarkerDetected /\ LosingInput => Unchanged /\ last.ret = Null

C3_Witness ==
    /\ UpdateDone /\ Armed /\ Enumerable
    /\ last.pre.isMarkerDetected
    /\ MatchQuality("emulated") /\ PoseMissing
    /\ ~isMarkerDetected

(***************************************************************************)
(* C4.  In every reachable state the held pose is non-null exactly when    *)
(* the marker is detected; and a non-null pose is either the pose held     *)
(* before the last call, or was written by that call: an update whose      *)
(* matching entry was tracked with a pose obtained, or emulated with a     *)
(* pose obtained while already detected.                                   *)
(***************************************************************************)
WrittenByUpdate ==
    /\ UpdateDone /\ Armed /\ Enumerable
    /\ PoseObtained /\ PoseAnswer = currentMarkerPose
    /\ \/ MatchQuality("tracked")
       \/ MatchQuality("emulated") /\ last.pre.isMarkerDetected

C4_PoseIffDetected ==
    /\ (currentMarkerPose # Null) <=> isMarkerDetected
    /\ currentMarkerPose # Null =>
          \/ currentMarkerPose = last.pre.currentMarkerPose
          \/ WrittenByUpdate

C4_Witness ==
    /\ isMarkerDetected /\ currentMarkerPose # Null
    /\ currentMarkerPose # last.pre.currentMarkerPose
    /\ last.pre.isMarkerDetected
    /\ WrittenByUpdate /\ MatchQuality("emulated")

(***************************************************************************)
(* C5.  An update call that starts Detected, whose matching entry is       *)
(* tracked and whose pose query returns no pose, leaves the state Detected *)
(* and the held pose as it was, invokes neither callback and returns no    *)
(* pose.                                                                   *)
(***************************************************************************)
C5_TrackedWithoutPose ==
    (UpdateDone /\ Armed /\ Enumerable /\ last.pre.isMarkerDetected
        /\ MatchQuality("tracked") /\ PoseMissing) =>
        /\ isMarkerDetected
        /\ currentMarkerPose = last.pre.currentMarkerPose
        /\ NoCallback
        /\ ReturnedNone

C5_Witness ==
    /\ UpdateDone /\ Armed /\ Enumerable /\ last.pre.isMarkerDetected
    /\ MatchQuality("tracked") /\ PoseMissing
    /\ isMarkerDetected /\ last.ret = Undefined

(***************************************************************************)
(* C6.  If the result enumeration or the pose query throws during update,  *)
(* from Idle or from Detected and whatever the quality, update returns     *)
(* null and no exception reaches its caller.                               *)
(***************************************************************************)
CollaboratorThrew == EnumerationThrew \/ PoseQueryThrew

C6_ThrowIsCaught ==
    (UpdateDone /\ CollaboratorThrew) => last.ret = Null /\ ~last.exc /\ last.caught

C6_Witness ==
    /\ UpdateDone /\ PoseQueryThrew
    /\ last.pre.isMarkerDetected
    /\ MatchQuality("emulated")
    /\ last.ret = Null /\ ~last.exc

(***************************************************************************)
(* C7, as claimed.  A throw of the enumeration or of the pose query leaves *)
(* the state and fires the callbacks of the empty-result-set branch: Idle, *)
(* no pose, and on-lost once if the call started Detected.                 *)
(***************************************************************************)
C7_ThrowActsAsEmptyResults ==
    (UpdateDone /\ CollaboratorThrew) =>
        /\ ~isMarkerDetected
        /\ currentMarkerPose = Null
        /\ last.detectedCalls = <<>>
        /\ Len(last.lostCalls) =
              (IF last.pre.isMarkerDetected /\ last.pre.onMarkerLostCallback # Null
               THEN 1 ELSE 0)

(***************************************************************************)
(* C7, amended.  A throw of the enumeration or of the pose query is        *)
(* caught: update returns null, isMarkerDetected and the held pose stay as *)
(* they were and no callback is invoked (a call that starts Detected stays *)
(* Detected with its pose).                                                *)
(***************************************************************************)
C7_ThrowChangesNothing ==
    (UpdateDone /\ CollaboratorThrew) =>
        /\ last.ret = Null /\ ~last.exc
        /\ Unchanged
        /\ NoCallback

C7_Witness ==
    /\ UpdateDone /\ EnumerationThrew
    /\ last.pre.isMarkerDetected /\ last.pre.onMarkerLostCallback # Null
    /\ isMarkerDetected /\ currentMarkerPose # Null
    /\ last.lostCalls = <<>>

(***************************************************************************)
(* C8.  An update call with no handle registered, or no reference space,   *)
(* or a frame without result enumeration returns null, invokes no          *)
(* callback, makes no enumeration and no pose query, and leaves            *)
(* isMarkerDetected and the held pose as they were, also when Detected.    *)
(***************************************************************************)
C8_GuardsAreNoOps ==
    (UpdateDone /\ (last.pre.trackableImage = Null \/ last.referenceSpace = Null
                        \/ ~Enumerable)) =>
        /\ last.ret = Null /\ ~last.exc
        /\ NoCallback
        /\ last.enumCalls = 0
        /\ last.poseQueries = <<>>
        /\ Unchanged

C8_Witness ==
    /\ UpdateDone /\ last.pre.trackableImage # Null /\ last.referenceSpace # Null
    /\ ~Enumerable
    /\ last.pre.isMarkerDetected /\ isMarkerDetected
    /\ currentMarkerPose # Null /\ last.ret = Null

(***************************************************************************)
(* C9, as claimed.  An update call that starts Detected, whose matching    *)
(* entry is emulated and whose pose query returns a pose, stays Detected,  *)
(* invokes no callback and holds the same pose after the call as before.   *)
(***************************************************************************)
EmulatedWithPose ==
    /\ UpdateDone /\ Armed /\ Enumerable /\ last.pre.isMarkerDetected
    /\ MatchQuality("emulated") /\ PoseObtained

C9_EmulatedKeepsHeldPose ==
    EmulatedWithPose =>
        /\ isMarkerDetected
        /\ NoCallback
        /\ currentMarkerPose = last.pre.currentMarkerPose

(***************************************************************************)
(* C9, amended.  Such a call stays Detected and invokes no callback; the   *)
(* held pose becomes the pose its pose query returned, which is also the   *)
(* value returned (the held pose is as before only if the query returned   *)
(* that same pose).                                                        *)
(***************************************************************************)
C9_EmulatedTakesQueriedPose ==
    EmulatedWithPose =>
        /\ isMarkerDetected
        /\ NoCallback
        /\ currentMarkerPose = PoseAnswer
        /\ last.ret = PoseAnswer

C9_Witness ==
    /\ EmulatedWithPose
    /\ currentMarkerPose = PoseAnswer
    /\ currentMarkerPose # last.pre.currentMarkerPose

(***************************************************************************)
(* C10.  An update call that starts Idle and whose matching entry is       *)
(* emulated returns null, invokes no callback and stays Idle without a     *)
(* pose, whether the pose query returns a pose or not.                     *)
(***************************************************************************)
C10_EmulatedNeverDetects ==
    (UpdateDone /\ Armed /\ Enumerable /\ ~last.pre.isMarkerDetected
        /\ MatchQuality("emulated")) =>
        /\ last.ret = Null /\ ~last.exc
        /\ NoCallback
        /\ ~isMarkerDetected
        /\ currentMarkerPose = Null

C10_Witness ==
    /\ UpdateDone /\ Armed /\ Enumerable /\ ~last.pre.isMarkerDetected
    /\ MatchQuality("emulated") /\ PoseObtained
    /\ ~isMarkerDetected /\ last.ret = Null

(***************************************************************************)
(* C11.  Idempotence of update.  Once an update has left the state         *)
(* Detected with pose P, every directly following update whose matching    *)
(* entry is tracked and whose pose query returns the same P returns P,     *)
(* leaves isMarkerDetected true and the held pose P, and does not invoke   *)
(* on-detected.  (Stated of one call that starts Detected with P: a call   *)
(* that follows such an update starts so.)                                 *)
(***************************************************************************)
TrackedWithHeldPose ==
    /\ UpdateDone /\ Armed /\ Enumerable
    /\ last.pre.isMarkerDetected
    /\ MatchQuality("tracked")
    /\ PoseObtained /\ PoseAnswer = last.pre.currentMarkerPose

C11_TrackedIdempotent ==
    TrackedWithHeldPose =>
        /\ last.ret = PoseAnswer /\ ~last.exc
        /\ isMarkerDetected
        /\ currentMarkerPose = PoseAnswer
        /\ last.detectedCalls = <<>>

C11_Witness ==
    /\ TrackedWithHeldPose
    /\ last.pre.onMarkerDetectedCallback # Null
    /\ last.ret = currentMarkerPose
    /\ last.detectedCalls = <<>>

(***************************************************************************)
(* C12, as claimed.  From Idle, with a handle, a reference space and both  *)
(* callbacks registered, the frames [untracked, tracked with P1, tracked   *)
(* with P2, empty result set] make update return [none, P1, P2, none],     *)
(* invoke on-detected once, with P1 in frame 2, and on-lost once, in       *)
(* frame 4, and nothing else.                                              *)
(***************************************************************************)
ScenarioDone == scenario.step = Len(ScenarioA)

ScenarioOutcome ==
    /\ scenario.returns = <<Null, scenario.answers[2], scenario.answers[3], Null>>
    /\ scenario.detected = <<[step |-> 2, pose |-> scenario.answers[2]]>>
    /\ scenario.lost = <<4>>

ScenarioStartReachable ==
    /\ last.op = "none" /\ initPc = "idle"
    /\ trackableImage \in Handles /\ markerImageLoaded
    /\ ~isMarkerDetected /\ currentMarkerPose = Null
    /\ onMarkerDetectedCallback \in Callbacks /\ onMarkerLostCallback \in Callbacks

(***************************************************************************)
(* Vocabulary of the properties about initializeMarkerTracking.            *)
(***************************************************************************)
InitializeDone == last.op = "initialized"

\* the image was fetched and decoded
ImageAcquired ==
    /\ last.image.fetch = "ok"
    /\ last.image.size >= 200
    /\ last.image.decodable

\* the call ended at loadMarkerImage
AcquisitionFailed == InitializeDone /\ last.image.fetch # "none" /\ ~ImageAcquired

\* the call ended at the capability check of registerTrackableImage
CapabilityAbsent ==
    /\ InitializeDone /\ ImageAcquired
    /\ ~last.platform.imageTracking \/ ~last.platform.requestFn

\* Mac, or a desktop browser that is not Chrome
ClassifiedUnsupported ==
    \/ last.platform.isMac
    \/ ~last.platform.mobileAgent /\ ~last.platform.chromeAgent

\* the call ended when session.requestImageTrackableImage settled
RequestSettled == InitializeDone /\ last.answer # Undefined
RegistrationFailed == RequestSettled /\ last.answer \in {Null, Throws}

ReturnedNull == last.ret = Null /\ ~last.exc
Raised == last.exc

(***************************************************************************)
(* C13, as claimed.  Whenever the capability check of registration fails,  *)
(* initialize returns null and does not raise, whatever the platform.      *)
(***************************************************************************)
C13_CapabilityAbsentReturnsNull ==
    CapabilityAbsent => ReturnedNull

(***************************************************************************)
(* C13, amended.  When the capability check fails, initialize returns null *)
(* without raising if the platform is classified as unsupported (Mac, or a *)
(* desktop browser other than Chrome); on every other platform it raises   *)
(* the "API not available" error.  Apart from that, initialize raises only *)
(* on acquisition failures and on failures of the registration call.       *)
(***************************************************************************)
C13_CapabilityAbsentByPlatform ==
    /\ CapabilityAbsent /\ ClassifiedUnsupported => ReturnedNull
    /\ CapabilityAbsent /\ ~ClassifiedUnsupported =>
            Raised /\ last.err = "api-unavailable"
    /\ InitializeDone /\ Raised =>
            \/ AcquisitionFailed
            \/ CapabilityAbsent /\ ~ClassifiedUnsupported
            \/ RegistrationFailed

C13_Witness ==
    /\ CapabilityAbsent /\ ~ClassifiedUnsupported
    /\ last.platform.mobileAgent
    /\ Raised

(***************************************************************************)
(* C14.  While no handle is registered (initialize not called, pending,    *)
(* returned null or failed), the marker is not detected and there is no    *)
(* pose, and every update call returns null, invokes no callback and       *)
(* leaves isMarkerDetected and currentMarkerPose as they were.             *)
(***************************************************************************)
NoHandle == trackableImage = Null

C14_NoHandleNoTracking ==
    /\ NoHandle => ~isMarkerDetected /\ currentMarkerPose = Null
    /\ UpdateDone /\ last.pre.trackableImage = Null =>
            /\ ReturnedNone /\ NoCallback /\ Unchanged
            /\ ~isMarkerDetected /\ currentMarkerPose = Null

\* initialize is pending, and the frame shows a tracked image
C14_Witness ==
    /\ UpdateDone /\ last.pre.trackableImage = Null
    /\ initPc = "registering"
    /\ last.referenceSpace # Null /\ Enumerable
    /\ last.frame.kind = "list" /\ Len(last.frame.list) > 0
    /\ last.frame.list[1].trackingState = "tracked"
    /\ last.pre.onMarkerDetectedCallback # Null
    /\ last.ret = Null

(***************************************************************************)
(* C15.  Every failure to acquire the reference image makes initialize     *)
(* raise an error, never return null, and the error tells the three causes *)
(* apart: a response that is not ok, a payload under 200 bytes that starts *)
(* with the Git LFS pointer marker, and a payload under 200 bytes that     *)
(* does not.  A 150-byte pointer payload gets the pointer diagnosis.       *)
(***************************************************************************)
ResponseNotOk == last.image.fetch = "notok"
SmallPayload == last.image.fetch = "ok" /\ last.image.size < 200

C15_AcquisitionFailureRaises ==
    AcquisitionFailed =>
        /\ Raised /\ last.ret # Null
        /\ trackableImage = last.pre.trackableImage
        /\ last.err = "not-ok" <=> ResponseNotOk
        /\ last.err = "lfs-pointer" <=> SmallPayload /\ last.image.pointer
        /\ last.err = "too-small" <=> SmallPayload /\ ~last.image.pointer
        /\ last.image.fetch = "ok" /\ last.image.size = 150 /\ last.image.pointer =>
                last.err = "lfs-pointer"

\* Scenario D: a 150-byte Git LFS pointer file
C15_Witness ==
    /\ AcquisitionFailed
    /\ last.image.size = 150 /\ last.image.pointer
    /\ last.err = "lfs-pointer" /\ Raised

(***************************************************************************)
(* C16.  When the capability check passed and the registration call then   *)
(* rejects or gives no handle, initialize raises an error (it does not     *)
(* return null) and trackableImage is what it was before.  When the call   *)
(* gives a handle, initialize returns it and holds it.                     *)
(***************************************************************************)
C16_RegistrationFailureRaises ==
    /\ RegistrationFailed =>
            /\ Raised /\ last.ret # Null
            /\ trackableImage = last.pre.trackableImage
    /\ RequestSettled /\ ~RegistrationFailed =>
            /\ ~Raised /\ last.ret = last.answer
            /\ trackableImage = last.answer

\* a second initialize fails while the handle of the first is held
C16_Witness ==
    /\ RegistrationFailed /\ last.answer = Null
    /\ last.pre.trackableImage # Null
    /\ trackableImage = last.pre.trackableImage
    /\ Raised

(***************************************************************************)
(* C17.  Registration overwrites.  Whatever onMarkerDetected calls came    *)
(* before, an update call that takes isMarkerDetected from false to true   *)
(* invokes the callback given to the latest of them, once, and no other;   *)
(* if the latest gave none, or there was no call, it invokes nothing.  The *)
(* same holds of onMarkerLost and the change from true to false.           *)
(***************************************************************************)
InvokedOnDetected == [c \in 1 .. Len(last.detectedCalls) |-> last.detectedCalls[c].cb]
InvokedOnLost == [c \in 1 .. Len(last.lostCalls) |-> last.lostCalls[c].cb]
OnlyLatest(cb) == IF cb = Null THEN <<>> ELSE <<cb>>

C17_LatestRegistrationWins ==
    /\ UpdateDone /\ BecameDetected => InvokedOnDetected = OnlyLatest(registered.detected)
    /\ UpdateDone /\ BecameIdle => InvokedOnLost = OnlyLatest(registered.lost)
    /\ UpdateDone =>
            /\ \A c \in 1 .. Len(last.detectedCalls) :
                    last.detectedCalls[c].cb = registered.detected
            /\ \A c \in 1 .. Len(last.lostCalls) :
                    last.lostCalls[c].cb = registered.lost

\* callback 1 was registered, callback 2 replaced it, and the marker was detected
C17_Witness ==
    /\ UpdateDone /\ BecameDetected
    /\ registered.detected = 2
    /\ InvokedOnDetected = <<2>>

\* the registration that replaces a held callback
C17_Overwritten ==
    /\ last.op = "onMarkerDetected"
    /\ last.pre.onMarkerDetectedCallback = 1
    /\ last.arg = 2

(***************************************************************************)
(* C18.  One update call invokes the on-detected callback at most once and *)
(* the on-lost callback at most once, and never both, whatever the state   *)
(* and the frame.                                                          *)
(***************************************************************************)
C18_AtMostOneCallback ==
    UpdateDone =>
        /\ Len(last.detectedCalls) <= 1
        /\ Len(last.lostCalls) <= 1
        /\ Len(last.detectedCalls) + Len(last.lostCalls) <= 1

\* both callbacks are registered; an emulated entry without a pose ends the detection
C18_Witness ==
    /\ UpdateDone /\ Armed
    /\ last.pre.onMarkerDetectedCallback # Null /\ last.pre.onMarkerLostCallback # Null
    /\ MatchQuality("emulated") /\ PoseMissing
    /\ Len(last.lostCalls) = 1 /\ last.detectedCalls = <<>>

(***************************************************************************)
(* C19.  Only updateMarkerTracking changes isMarkerDetected and            *)
(* currentMarkerPose: isMarkerCurrentlyDetected, getCurrentMarkerPose,     *)
(* onMarkerDetected, onMarkerLost, getMarkerConfig and every step of       *)
(* initializeMarkerTracking leave both as they were and invoke no          *)
(* callback; the two accessors return the held values.  A callback         *)
(* registered while the marker is detected is not invoked by the           *)
(* registration, nor by an update call that finds the marker still         *)
(* detected.                                                               *)
(***************************************************************************)
OtherThanUpdate ==
    last.op \in {"isMarkerCurrentlyDetected", "getCurrentMarkerPose", "onMarkerDetected",
                 "onMarkerLost", "getMarkerConfig", "initialize", "loaded", "initialized"}

C19_OnlyUpdateWrites ==
    /\ last.op \notin {"none", "update"} => OtherThanUpdate
    /\ OtherThanUpdate => Unchanged /\ NoCallback
    /\ last.op = "isMarkerCurrentlyDetected" => last.flag = isMarkerDetected
    /\ last.op = "getCurrentMarkerPose" => last.ret = currentMarkerPose
    /\ UpdateDone /\ last.pre.isMarkerDetected /\ isMarkerDetected =>
            last.detectedCalls = <<>>

\* a callback is registered while the marker is detected
C19_Witness ==
    /\ last.op = "onMarkerDetected"
    /\ last.arg # Null
    /\ last.pre.isMarkerDetected /\ isMarkerDetected
    /\ currentMarkerPose # Null
    /\ NoCallback

\* the update call after such a registration, the marker still tracked
C19_StillDetected ==
    /\ UpdateDone /\ last.pre.isMarkerDetected /\ isMarkerDetected
    /\ last.pre.onMarkerDetectedCallback # Null
    /\ MatchQuality("tracked") /\ PoseObtained

(***************************************************************************)
(* C20.  getMarkerConfig gives a copy.  After a caller has written a field *)
(* of the configuration object it was given, a later getMarkerConfig call  *)
(* still returns the original image path, width and height, and a later    *)
(* initializeMarkerTracking still fetches the original path and registers  *)
(* the original width and height.                                          *)
(***************************************************************************)
OriginalConfig ==
    [imagePath |-> "/marker-image.jpg", physicalWidth |-> 100, physicalHeight |-> 150]

\* the caller holds a configuration object and has written into it
CallerWrote ==
    /\ returnedConfig.value.imagePath # ""
    /\ returnedConfig.value # OriginalConfig

C20_DefensiveCopy ==
    CallerWrote =>
        /\ last.op = "getMarkerConfig" => last.config = OriginalConfig
        /\ last.op = "initialize" => last.config.imagePath = OriginalConfig.imagePath
        /\ last.op = "loaded" =>
                /\ last.config.physicalWidth = OriginalConfig.physicalWidth
                /\ last.config.physicalHeight = OriginalConfig.physicalHeight

\* every field of the kept object was overwritten, then the accessor was called
C20_Witness ==
    /\ returnedConfig.value.imagePath = "/other.jpg"
    /\ returnedConfig.value.physicalWidth = 0
    /\ returnedConfig.value.physicalHeight = 0
    /\ last.op = "getMarkerConfig"
    /\ last.config = OriginalConfig

\* a registration made after the write
C20_RegisteredAfterWrite ==
    /\ CallerWrote
    /\ last.op = "loaded"
    /\ last.config.physicalWidth = 100 /\ last.config.physicalHeight = 150

(***************************************************************************)
(* C21.  When the frame gives several results, update acts on the first    *)
(* one whose image is the held handle.  The pose query, if any, is about   *)
(* that result; what the call does follows from the quality of that result *)
(* and the answer of that query; results of other images, and later        *)
(* results of the held image, change nothing.  With no result of the held  *)
(* image the call ends Idle without a pose query.                          *)
(***************************************************************************)
Enumerated == UpdateDone /\ Armed /\ Enumerable /\ last.frame.kind = "list"

C21_FirstMatchDecides ==
    Enumerated =>
        /\ \A k \in 1 .. Len(last.poseQueries) : FirstMatch(last.poseQueries[k].imageSpace)
        /\ ~HasMatch =>
                /\ last.poseQueries = <<>> /\ last.detectedCalls = <<>>
                /\ ~isMarkerDetected /\ currentMarkerPose = Null /\ ReturnedNone
        /\ MatchQuality("untracked") \/ MatchQuality("other") =>
                /\ last.poseQueries = <<>> /\ last.detectedCalls = <<>>
                /\ ~isMarkerDetected /\ currentMarkerPose = Null /\ ReturnedNone
        /\ MatchQuality("tracked") =>
                /\ Queried
                /\ PoseObtained => isMarkerDetected /\ currentMarkerPose = PoseAnswer
                /\ PoseMissing \/ PoseQueryThrew => Unchanged /\ NoCallback /\ ReturnedNone
        /\ MatchQuality("emulated") =>
                /\ Queried /\ last.detectedCalls = <<>>
                /\ PoseObtained /\ last.pre.isMarkerDetected =>
                        isMarkerDetected /\ currentMarkerPose = PoseAnswer
                /\ PoseObtained /\ ~last.pre.isMarkerDetected => Unchanged /\ ReturnedNone
                /\ PoseMissing => ~isMarkerDetected /\ currentMarkerPose = Null
                /\ PoseQueryThrew => Unchanged /\ NoCallback

\* two results of the held image: the first tracked, the second untracked
C21_Witness ==
    /\ Enumerated /\ Len(last.frame.list) = 2
    /\ last.frame.list[1].trackedImage = last.pre.trackableImage
    /\ last.frame.list[2].trackedImage = last.pre.trackableImage
    /\ last.frame.list[1].trackingState = "tracked"
    /\ last.frame.list[2].trackingState = "untracked"
    /\ PoseObtained /\ BecameDetected /\ last.ret = PoseAnswer

\* a tracked result of another image comes before an untracked one of the held image
C21_OtherImageFirst ==
    /\ Enumerated /\ Len(last.frame.list) = 2
    /\ last.frame.list[1].trackedImage # last.pre.trackableImage
    /\ last.frame.list[1].trackingState = "tracked"
    /\ last.frame.list[2].trackedImage = last.pre.trackableImage
    /\ last.frame.list[2].trackingState = "untracked"
    /\ BecameIdle /\ last.poseQueries = <<>>

(***************************************************************************)
(* C22.  One update call enumerates the results at most once and asks for  *)
(* at most one pose; it asks for none when the frame gives no results,     *)
(* when no result is of the held image, and when the matching result is    *)
(* untracked.                                                              *)
(***************************************************************************)
C22_AtMostOneQuery ==
    UpdateDone =>
        /\ last.enumCalls <= 1
        /\ Len(last.poseQueries) <= 1
        /\ NoResults => last.poseQueries = <<>>
        /\ last.frame.kind = "list" /\ ~HasMatch => last.poseQueries = <<>>
        /\ MatchQuality("untracked") => last.poseQueries = <<>>
        /\ last.poseQueries # <<>> => last.enumCalls = 1

\* a detected marker goes untracked: one enumeration, no pose query
C22_Witness ==
    /\ UpdateDone /\ Armed /\ Enumerable
    /\ MatchQuality("untracked")
    /\ last.pre.isMarkerDetected
    /\ last.enumCalls = 1 /\ last.poseQueries = <<>>

\* the call that does ask: one enumeration, one query
C22_OneQuery ==
    /\ UpdateDone /\ MatchQuality("emulated")
    /\ last.enumCalls = 1 /\ Len(last.poseQueries) = 1

(***************************************************************************)
(* C23.  The state is written before the callback runs.  While the         *)
(* on-detected callback runs, isMarkerDetected is true and                 *)
(* currentMarkerPose is the pose passed to the callback; while the on-lost *)
(* callback runs, isMarkerDetected is false and currentMarkerPose is null. *)
(* So an updateMarkerTracking call made from inside a callback with the    *)
(* frame of the outer call does not invoke that callback again.            *)
(***************************************************************************)
InOnDetected == outer.pc = "onDetected"
InOnLost == outer.pc = "onLost"

C23_CommittedBeforeCallback ==
    /\ InOnDetected /\ ~outer.reentered =>
            /\ isMarkerDetected
            /\ outer.pose \in Poses /\ currentMarkerPose = outer.pose
    /\ InOnLost /\ ~outer.reentered =>
            ~isMarkerDetected /\ currentMarkerPose = Null
    /\ InOnDetected /\ outer.reentered => outer.nestedDetected = 0
    /\ InOnLost /\ outer.reentered => outer.nestedLost = 0

\* the nested call found the marker tracked, got a pose and returned it
C23_Witness ==
    /\ InOnDetected /\ outer.reentered
    /\ ~outer.pre.isMarkerDetected
    /\ UpdateDone /\ MatchQuality("tracked") /\ PoseObtained
    /\ last.ret = PoseAnswer
    /\ outer.nestedDetected = 0

(***************************************************************************)
(* C24.  If the on-detected or the on-lost callback throws, no exception   *)
(* leaves updateMarkerTracking, the change of state that led to the        *)
(* callback stays (detected with the new pose, or not detected without a   *)
(* pose), and the call returns null, also when it had obtained a pose.     *)
(***************************************************************************)
CallbackThrew ==
    /\ UpdateDone /\ last.caught
    /\ ~EnumerationThrew /\ ~PoseQueryThrew
    /\ ~NoCallback

C24_CallbackThrowIsCaught ==
    /\ UpdateDone => ~last.exc
    /\ CallbackThrew => last.ret = Null
    /\ CallbackThrew /\ last.detectedCalls # <<>> =>
            /\ PoseObtained
            /\ last.detectedCalls[1].pose = PoseAnswer
            /\ isMarkerDetected /\ currentMarkerPose = PoseAnswer
    /\ CallbackThrew /\ last.lostCalls # <<>> =>
            ~isMarkerDetected /\ currentMarkerPose = Null

\* the on-detected callback throws on the frame that detects the marker
C24_Witness ==
    /\ CallbackThrew /\ last.detectedCalls # <<>>
    /\ BecameDetected /\ PoseObtained
    /\ last.ret = Null /\ ~last.exc

\* the on-lost callback throws
C24_LostThrew ==
    /\ CallbackThrew /\ last.lostCalls # <<>>
    /\ BecameIdle /\ last.pre.currentMarkerPose # Null

(***************************************************************************)
(* C25.  Whenever updateMarkerTracking returns a pose, the marker is       *)
(* detected after the call, currentMarkerPose is the pose returned, and    *)
(* that pose is the answer of the pose query the call made.                *)
(***************************************************************************)
ReturnedPose == UpdateDone /\ ~last.exc /\ last.ret \in Poses

C25_ReturnedPoseIsHeld ==
    ReturnedPose =>
        /\ isMarkerDetected
        /\ currentMarkerPose = last.ret
        /\ PoseObtained /\ last.ret = PoseAnswer
        /\ MatchQuality("tracked") \/ MatchQuality("emulated")

\* a detected marker is tracked at another pose than the one held
C25_Witness ==
    /\ ReturnedPose
    /\ last.pre.isMarkerDetected
    /\ last.pre.currentMarkerPose # last.ret
    /\ MatchQuality("tracked")
    /\ currentMarkerPose = last.ret

(***************************************************************************)
(* C26.  An update call made while the marker is not detected, whose       *)
(* matching result is tracked and whose pose query gives no pose, leaves   *)
(* the marker not detected and without a pose, invokes no callback and     *)
(* returns no pose.  A detection never starts without a pose obtained.     *)
(***************************************************************************)
IdleTrackedWithoutPose ==
    /\ UpdateDone /\ Armed /\ Enumerable
    /\ ~last.pre.isMarkerDetected
    /\ MatchQuality("tracked") /\ PoseMissing

C26_NoPoseNoDetection ==
    /\ IdleTrackedWithoutPose =>
            /\ ~isMarkerDetected /\ currentMarkerPose = Null
            /\ NoCallback
            /\ ReturnedNone
    /\ UpdateDone /\ BecameDetected => PoseObtained /\ currentMarkerPose = PoseAnswer

C26_Witness ==
    /\ IdleTrackedWithoutPose
    /\ last.pre.onMarkerDetectedCallback # Null
    /\ ~isMarkerDetected /\ last.detectedCalls = <<>>

(***************************************************************************)
(* C27.  A matching result whose trackingState is neither tracked nor      *)
(* emulated nor untracked is handled as untracked: no pose query, the call *)
(* returns null, and if the marker was detected the on-lost callback is    *)
(* invoked once and the marker is no longer detected and has no pose.      *)
(***************************************************************************)
UnknownQuality == UpdateDone /\ Armed /\ Enumerable /\ MatchQuality("other")

C27_UnknownStateIsUntracked ==
    UnknownQuality =>
        /\ last.poseQueries = <<>>
        /\ last.ret = Null /\ ~last.exc
        /\ ~isMarkerDetected /\ currentMarkerPose = Null
        /\ last.detectedCalls = <<>>
        /\ last.pre.isMarkerDetected /\ last.pre.onMarkerLostCallback # Null =>
                /\ Len(last.lostCalls) = 1
                /\ last.lostCalls[1].cb = last.pre.onMarkerLostCallback
        /\ ~last.pre.isMarkerDetected => last.lostCalls = <<>>

C27_Witness ==
    /\ UnknownQuality
    /\ last.pre.isMarkerDetected /\ last.pre.onMarkerLostCallback # Null
    /\ Len(last.lostCalls) = 1
    /\ ~isMarkerDetected

(***************************************************************************)
(* C28.  With both callbacks registered before the first update call and   *)
(* never replaced, the callback invocations of any sequence of update      *)
(* calls alternate, on-detected first: on-lost is never invoked unless the *)
(* invocation before it was on-detected, and on-detected is never invoked  *)
(* twice in a row.  The callback invoked last tells the state.             *)
(***************************************************************************)
C28_CallbacksAlternate ==
    /\ fired.alternates
    /\ fired.latest = "detected" <=> isMarkerDetected
    /\ fired.count = 0 <=> fired.latest = "none"

\* detected, lost, detected again
C28_Witness ==
    /\ fired.count >= 3
    /\ fired.latest = "detected"
    /\ UpdateDone /\ BecameDetected /\ Len(last.detectedCalls) = 1

(***************************************************************************)
(* C29.  initializeMarkerTracking registers only after the image was       *)
(* acquired.  When acquisition fails, no registration request is made and  *)
(* trackableImage and markerImageLoaded are as before.  When acquisition   *)
(* succeeds and the capability is absent or the request fails,             *)
(* markerImageLoaded is true and trackableImage is as before.              *)
(* trackableImage changes only when a request gave a handle, to that       *)
(* handle, and is never set back to null.                                  *)
(***************************************************************************)
RequestPending == initPc = "registering"

C29_RegistrationAfterAcquisition ==
    /\ AcquisitionFailed =>
            /\ ~RequestPending /\ ~RequestSettled
            /\ trackableImage = last.pre.trackableImage
            /\ markerImageLoaded = last.pre.markerImageLoaded
    /\ CapabilityAbsent \/ RegistrationFailed =>
            /\ markerImageLoaded
            /\ trackableImage = last.pre.trackableImage
    /\ RequestPending \/ RequestSettled => markerImageLoaded
    /\ last.op # "none" /\ trackableImage # last.pre.trackableImage =>
            /\ RequestSettled /\ last.answer \notin {Null, Throws}
            /\ trackableImage = last.answer
    /\ last.op # "none" /\ last.pre.trackableImage # Null => trackableImage # Null
    /\ trackableImage # Null => markerImageLoaded

\* the first acquisition fails on a blob that cannot be decoded
C29_Witness ==
    /\ AcquisitionFailed
    /\ last.image.fetch = "ok" /\ last.image.size >= 200 /\ ~last.image.decodable
    /\ ~last.pre.markerImageLoaded /\ ~markerImageLoaded
    /\ trackableImage = Null

\* a later request replaces the handle by another one
C29_HandleReplaced ==
    /\ RequestSettled
    /\ last.pre.trackableImage # Null
    /\ trackableImage # last.pre.trackableImage

(***************************************************************************)
(* C30.  In main.js the frame callback counts the frame and requests the   *)
(* next one if and only if xrSession and referenceSpace are both set when  *)
(* it runs.  Once handleSessionEnd has cleared them they stay cleared, a   *)
(* frame callback that is still delivered does neither, and with no        *)
(* callback requested the render loop has stopped.                         *)
(***************************************************************************)
FrameRan == main.frame.ran
BothPresent == main.frame.hadSession /\ main.frame.hadSpace

C30_RenderLoopStops ==
    /\ FrameRan =>
            /\ main.frame.counted <=> BothPresent
            /\ main.frame.requested <=> BothPresent
    /\ main.handled =>
            /\ ~main.xrSession /\ ~main.referenceSpace
            /\ main.pending <= 1
    /\ main.handled /\ FrameRan /\ ~BothPresent => main.pending = 0
    /\ main.pending > 0 /\ ~main.handled =>
            main.xrSession /\ main.referenceSpace /\ main.listening

\* frames were counted, the session ended, and the callback that was still
\* requested ran without counting or requesting
C30_Witness ==
    /\ main.handled
    /\ main.frameCount >= 2
    /\ FrameRan /\ ~BothPresent
    /\ ~main.frame.counted /\ ~main.frame.requested
    /\ main.pending = 0

\* the loop while it runs
C30_LoopRuns ==
    /\ FrameRan /\ BothPresent
    /\ main.frame.counted /\ main.frame.requested
    /\ main.frameCount = 2 /\ main.pending = 1

====
